---- MODULE Spec2Model ----
(***************************************************************************)
(* Model of planka_collector.py: the webhook collector that parses Planka  *)
(* notifications, stores them in the SQLite table "events", forwards a     *)
(* filtered subset to a chat webhook and lists the most recent records.    *)
(*                                                                         *)
(* Text is modelled character by character: a Python str is a sequence of  *)
(* one-character strings, so that the regular expressions of the parser    *)
(* are computed with the leftmost / lazy / greedy rules of re.search.      *)
(***************************************************************************)
EXTENDS Integers, Sequences, FiniteSets, TLC

VARIABLES tableExists, columns, events, clock, env, last, prevOp

vars == <<tableExists, columns, events, clock, env, last, prevOp>>

(***************************************************************************)
(* Bounds of the model.                                                    *)
(***************************************************************************)
MaxEvents == 1
MaxClock == 1
MaxFrags == 3
MaxListEvents == 11

(***************************************************************************)
(* Python / JSON values.  Every value carries its type tag t; a str        *)
(* carries its characters in s, a dict its key -> value map in f.          *)
(***************************************************************************)
None == [t |-> "null", s |-> <<>>, f |-> <<>>]
Str(chars) == [t |-> "str", s |-> chars, f |-> <<>>]
Num == [t |-> "num", s |-> <<"7">>, f |-> <<>>]
Obj(map) == [t |-> "obj", s |-> <<>>, f |-> map]
EmptyObj == Obj(<<>>)

IsStr(v) == v.t = "str"
IsObj(v) == v.t = "obj"

\* 'k' in d   (d is a dict)
HasKey(d, k) == k \in DOMAIN d.f
\* d.get(k, default)
Get(d, k, default) == IF k \in DOMAIN d.f THEN d.f[k] ELSE default
\* NotData with the emptiness test dropped: only a missing payload is refused
NotDataNoneOnly(data) == data.t = "null"

\* `not data` : None, {} and "" are falsy; the model's number 7 is truthy
NotData(data) ==
    \/ data.t = "null"
    \/ data.t = "obj" /\ DOMAIN data.f = {}
    \/ data.t = "str" /\ data.s = <<>>

(***************************************************************************)
(* Literals of the source.                                                 *)
(***************************************************************************)
LitOn == <<" ","o","n"," ">>
LitCards == <<"/","c","a","r","d","s","/">>
LitFrom == <<"f","r","o","m"," ","*","*">>
LitTo == <<"*","*"," ","t","o"," ","*","*">>
LitStars == <<"*","*">>
TxtNA == <<"N","/","A">>
TxtSystem == <<"S","y","s","t","e","m">>
TxtUnknown == <<"U","n","k","n","o","w","n">>
TxtNotification == <<"N","o","t","i","f","i","c","a","t","i","o","n">>
TxtUnknownLower == <<"u","n","k","n","o","w","n">>
TxtEP == <<"E","P">>
TxtCardMoved == <<"C","a","r","d"," ","M","o","v","e","d">>
TxtCardCreated == <<"C","a","r","d"," ","C","r","e","a","t","e","d">>

ALLOWED_BOARDS == {Str(TxtEP)}
ALLOWED_TYPES == {Str(TxtCardMoved), Str(TxtCardCreated)}
DefaultWebhookUrl == "https://qyapi.weixin.qq.com/cgi-bin/webhook/send"

\* [a-zA-Z0-9-]
IdChars ==
    {"a","b","c","d","e","f","g","h","i","j","k","l","m","n","o","p","q","r",
     "s","t","u","v","w","x","y","z",
     "A","B","C","D","E","F","G","H","I","J","K","L","M","N","O","P","Q","R",
     "S","T","U","V","W","X","Y","Z",
     "0","1","2","3","4","5","6","7","8","9","-"}
\* the characters str.strip() removes
Whitespace == {" ", "\t", "\n", "\r", "\f"}

(***************************************************************************)
(* Text helpers and the regular-expression primitives.                     *)
(***************************************************************************)
Min(S) == CHOOSE x \in S : \A y \in S : x <= y
Max(S) == CHOOSE x \in S : \A y \in S : x >= y

\* the literal lit occurs in str at position i
LitAt(str, lit, i) ==
    /\ i >= 1
    /\ i + Len(lit) - 1 <= Len(str)
    /\ \A k \in 1..Len(lit) : str[i + k - 1] = lit[k]

\* '.' without DOTALL: every character of str[i..j] is not a newline
AllDot(str, i, j) == \A k \in i..j : str[k] # "\n"

\* '$' without MULTILINE: position j is the end of str, or just before a
\* newline that ends str
AtEnd(str, j) ==
    \/ j = Len(str) + 1
    \/ j = Len(str) /\ str[j] = "\n"

NoMatch == [found |-> FALSE, g1 |-> <<>>, g2 |-> <<>>]

\* str.strip()
Strip(str) ==
    LET keep == {i \in 1..Len(str) : str[i] \notin Whitespace}
    IN  IF keep = {} THEN <<>> ELSE SubSeq(str, Min(keep), Max(keep))

\* str.split(' ')[0]
FirstToken(str) ==
    LET sp == {i \in 1..Len(str) : str[i] = " "}
    IN  IF sp = {} THEN str ELSE SubSeq(str, 1, Min(sp) - 1)

\* re.search(r' on (.*?)$', raw_message)
BoardEnds(str, i) ==
    {j \in (i + 4)..(Len(str) + 1) : AllDot(str, i + 4, j - 1) /\ AtEnd(str, j)}
match_board(str) ==
    LET starts == {i \in 1..Len(str) : LitAt(str, LitOn, i) /\ BoardEnds(str, i) # {}}
    IN  IF starts = {} THEN NoMatch
        ELSE LET i == Min(starts)
                 j == Min(BoardEnds(str, i))
             IN  [found |-> TRUE, g1 |-> SubSeq(str, i + 4, j - 1), g2 |-> <<>>]

\* re.search(r'\[(.*?)\]\((.*?/cards/([a-zA-Z0-9-]+))\)', raw_message)
\* i: '[', j: the ']' that is followed by '(', k: '/cards/', e: last id char
CardIdEnds(str, k) ==
    {e \in (k + 7)..(Len(str) - 1) :
        /\ \A m \in (k + 7)..e : str[m] \in IdChars
        /\ str[e + 1] = ")"}
CardUrls(str, j) ==
    {k \in (j + 2)..Len(str) :
        /\ AllDot(str, j + 2, k - 1)
        /\ LitAt(str, LitCards, k)
        /\ CardIdEnds(str, k) # {}}
CardLabelEnds(str, i) ==
    {j \in (i + 1)..(Len(str) - 1) :
        /\ AllDot(str, i + 1, j - 1)
        /\ str[j] = "]"
        /\ str[j + 1] = "("
        /\ CardUrls(str, j) # {}}
match_card(str) ==
    LET starts == {i \in 1..Len(str) : str[i] = "[" /\ CardLabelEnds(str, i) # {}}
    IN  IF starts = {} THEN NoMatch
        ELSE LET i == Min(starts)
                 j == Min(CardLabelEnds(str, i))
                 k == Min(CardUrls(str, j))
                 e == Max(CardIdEnds(str, k))
             IN  [found |-> TRUE, g1 |-> SubSeq(str, i + 1, j - 1),
                  g2 |-> SubSeq(str, k + 7, e)]

\* re.search(r'\[(.*?)\]', raw_message)
TextLabelEnds(str, i) ==
    {j \in (i + 1)..Len(str) : AllDot(str, i + 1, j - 1) /\ str[j] = "]"}
match_text_card(str) ==
    LET starts == {i \in 1..Len(str) : str[i] = "[" /\ TextLabelEnds(str, i) # {}}
    IN  IF starts = {} THEN NoMatch
        ELSE LET i == Min(starts)
                 j == Min(TextLabelEnds(str, i))
             IN  [found |-> TRUE, g1 |-> SubSeq(str, i + 1, j - 1), g2 |-> <<>>]

\* re.search(r'from \*\*(.*?)\*\* to \*\*(.*?)\*\*', raw_message)
MoveToEnds(str, a) ==
    {b \in (a + 8)..Len(str) : AllDot(str, a + 8, b - 1) /\ LitAt(str, LitStars, b)}
MoveFromEnds(str, i) ==
    {a \in (i + 7)..Len(str) :
        /\ AllDot(str, i + 7, a - 1)
        /\ LitAt(str, LitTo, a)
        /\ MoveToEnds(str, a) # {}}
match_move(str) ==
    LET starts == {i \in 1..Len(str) : LitAt(str, LitFrom, i) /\ MoveFromEnds(str, i) # {}}
    IN  IF starts = {} THEN NoMatch
        ELSE LET i == Min(starts)
                 a == Min(MoveFromEnds(str, i))
                 b == Min(MoveToEnds(str, a))
             IN  [found |-> TRUE, g1 |-> SubSeq(str, i + 7, a - 1),
                  g2 |-> SubSeq(str, a + 8, b - 1)]

(***************************************************************************)
(* The parsing part of handle_webhook (lines 58-108).  raised = TRUE       *)
(* stands for the exception Python raises on a value of the wrong type.    *)
(***************************************************************************)
Defaults ==
    [raised |-> FALSE,
     event_type |-> Str(TxtUnknown), item_name |-> Str(TxtNA),
     board_name |-> Str(TxtNA), user_name |-> Str(TxtSystem),
     card_id |-> None, from_list |-> None, to_list |-> None]

Raised == [Defaults EXCEPT !.raised = TRUE]

\* Shape A, lines 69-99
ParseMessage(data) ==
    LET raw_message == Get(data, "message", Str(<<>>))
    IN  IF ~IsStr(raw_message) THEN Raised      \* .split on a non-str
        ELSE
        LET msg == raw_message.s
            mb == match_board(msg)
            mc == match_card(msg)
            mt == match_text_card(msg)
            mm == match_move(msg)
        IN  [raised |-> FALSE,
             event_type |-> Get(data, "title", Str(TxtNotification)),
             user_name |-> Str(FirstToken(msg)),
             board_name |-> IF mb.found THEN Str(Strip(mb.g1)) ELSE Str(TxtNA),
             item_name |-> IF mc.found THEN Str(mc.g1)
                           ELSE IF mt.found THEN Str(mt.g1) ELSE Str(TxtNA),
             card_id |-> IF mc.found THEN Str(mc.g2) ELSE None,
             from_list |-> IF mm.found THEN Str(mm.g1) ELSE None,
             to_list |-> IF mm.found THEN Str(mm.g2) ELSE None]

\* Shape B, lines 102-107
ParseEvent(data) ==
    LET payload == Get(data, "data", EmptyObj)
    IN  IF ~IsObj(payload) THEN Raised          \* .get on a non-dict
        ELSE
        LET item == Get(payload, "item", EmptyObj)
        IN  IF ~IsObj(item) THEN Raised
            ELSE [Defaults EXCEPT
                    !.event_type = Get(data, "event", Str(TxtUnknownLower)),
                    !.item_name = Get(item, "name", Str(<<>>)),
                    !.card_id = Get(item, "id", Str(<<>>))]

\* lines 58-108; data is a truthy JSON object
Parse(data) ==
    IF HasKey(data, "message") THEN ParseMessage(data)
    ELSE IF HasKey(data, "event") THEN ParseEvent(data)
    ELSE Defaults

(***************************************************************************)
(* Requests.                                                               *)
(***************************************************************************)
Malformed == [kind |-> "malformed"]
Json(data) == [kind |-> "json", data |-> data]

TxtNewComment == <<"N","e","w"," ","C","o","m","m","e","n","t">>
TxtCardCreatedB == <<"c","a","r","d","_","c","r","e","a","t","e","d">>
TxtNewTask == <<"N","e","w"," ","T","a","s","k">>
TxtXyz == <<"x","y","z">>
\* "Al moved [Fix](http://x/cards/a-1) from **B** to **D** on EP"
MsgMoveEP == <<"A","l"," ","m","o","v","e","d"," ","[","F","i","x","]","(","h","t","t","p",":","/","/","x","/","c","a","r","d","s","/","a","-","1",")"," ","f","r","o","m"," ","*","*","B","*","*"," ","t","o"," ","*","*","D","*","*"," ","o","n"," ","E","P">>
\* the same on board PX
MsgMovePX == <<"A","l"," ","m","o","v","e","d"," ","[","F","i","x","]","(","h","t","t","p",":","/","/","x","/","c","a","r","d","s","/","a","-","1",")"," ","f","r","o","m"," ","*","*","B","*","*"," ","t","o"," ","*","*","D","*","*"," ","o","n"," ","P","X">>
\* "Bo made [T](http://x/cards/c2) on EP"
MsgCreateEP == <<"B","o"," ","m","a","d","e"," ","[","T","]","(","h","t","t","p",":","/","/","x","/","c","a","r","d","s","/","c","2",")"," ","o","n"," ","E","P">>
\* "Al did"
MsgPlain == <<"A","l"," ","d","i","d">>

ShapeA(title, message) == Json(Obj([title |-> title, message |-> message]))
ShapeB(event, payload) == Json(Obj([event |-> event, data |-> payload]))
Item(item) == Obj([item |-> item])

BodyEmpty == Json(EmptyObj)
BodyNeither == Json(Obj([x |-> Num]))
BodyMoveEP == ShapeA(Str(TxtCardMoved), Str(MsgMoveEP))
BodyMovePX == ShapeA(Str(TxtCardMoved), Str(MsgMovePX))
BodyCreateEP == ShapeA(Str(TxtCardCreated), Str(MsgCreateEP))
BodyCommentEP == ShapeA(Str(TxtNewComment), Str(MsgCreateEP))
BodyNoTitle == Json(Obj([message |-> Str(MsgPlain)]))
BodyNullTitle == ShapeA(None, Str(MsgCreateEP))
BodyNullMessage == ShapeA(Str(TxtCardMoved), None)
BodyNumMessage == Json(Obj([message |-> Num]))
BodyEvent == ShapeB(Str(TxtCardCreatedB), Item(Obj([name |-> Str(TxtNewTask), id |-> Str(TxtXyz)])))
BodyEventOnly == Json(Obj([event |-> Str(TxtCardCreatedB)]))
BodyNullEvent == Json(Obj([event |-> None]))
BodyNullData == ShapeB(Str(TxtCardCreatedB), None)
BodyNumData == ShapeB(Str(TxtCardCreatedB), Num)
BodyNullItem == ShapeB(Str(TxtCardCreatedB), Item(None))
BodyNullName == ShapeB(Str(TxtCardCreatedB), Item(Obj([name |-> None])))
BodyObjName == ShapeB(Str(TxtCardCreatedB), Item(Obj([name |-> Obj([x |-> Num])])))

Bodies ==
    {Malformed, Json(None), BodyEmpty, BodyNeither,
     BodyMoveEP, BodyMovePX, BodyCreateEP, BodyCommentEP, BodyNoTitle,
     BodyNullTitle, BodyNullMessage, BodyNumMessage,
     BodyEvent, BodyEventOnly, BodyNullEvent, BodyNullData, BodyNumData,
     BodyNullItem, BodyNullName, BodyObjName}

(***************************************************************************)
(* Shape-A messages built from fragments, for the parser's properties.      *)
(***************************************************************************)
Frags ==
    {<<"A","l">>, <<" ">>, LitOn, TxtEP, <<"[","a","]">>,
     <<"[","b","]","(","u","/","c","a","r","d","s","/","c","1",")">>,
     <<"[","d","]","(","u",")">>, <<"\n">>}

RECURSIVE FragMessages(_)
FragMessages(n) ==
    IF n = 0 THEN {<<>>}
    ELSE LET shorter == FragMessages(n - 1)
         IN  shorter \cup {m \o g : m \in shorter, g \in Frags}

\* "Al noted on Fix on EP"
MsgTwoOn == <<"A","l"," ","n","o","t","e","d"," ","o","n"," ","F","i","x"," ","o","n"," ","E","P">>
\* "Al moved [x] [Fix](http://x/cards/a-1) on EP"
MsgTwoBrackets == <<"A","l"," ","m","o","v","e","d"," ","[","x","]"," ","[","F","i","x","]","(","h","t","t","p",":","/","/","x","/","c","a","r","d","s","/","a","-","1",")"," ","o","n"," ","E","P">>

ParseBodies ==
    {ShapeA(Str(TxtCardMoved), Str(m)) :
        m \in FragMessages(MaxFrags) \cup {MsgTwoOn, MsgTwoBrackets, MsgMoveEP}}

\* Parse is evaluated once per payload the specifications post: ParseOnce(data)
\* is Parse(data), looked up where it was computed before.
Payloads(requests) ==
    {b.data : b \in {r \in requests : r.kind = "json" /\ ~NotData(r.data)}}
Parsed == [data \in Payloads(Bodies) |-> Parse(data)]
ParsedFrags == [data \in Payloads(ParseBodies) |-> Parse(data)]
ParseOnce(data) ==
    IF data \in DOMAIN Parsed THEN Parsed[data]
    ELSE IF data \in DOMAIN ParsedFrags THEN ParsedFrags[data]
    ELSE Parse(data)

(***************************************************************************)
(* The store: the table "events" of planka_events.db.                      *)
(***************************************************************************)
BaseColumns ==
    {"id", "event_type", "item_name", "board_name", "user_name", "raw_data",
     "received_at"}
\* new_columns, in the iteration order of the dict
new_columns == <<"card_id", "from_list", "to_list">>
NewColumnSet == {new_columns[i] : i \in 1..Len(new_columns)}
AllColumns == BaseColumns \cup NewColumnSet
LIMIT == 10

\* MissingColumns without the membership test of line 42
MissingColumnsUnchecked(existing_columns) == NewColumnSet

\* the columns init_db decides to add, given the columns PRAGMA table_info
\* reported (line 42)
MissingColumns(existing_columns) == NewColumnSet \ existing_columns

\* The loop of lines 41-44 from index i on.  cols is the table's column set,
\* existing_columns the snapshot of line 32.  ALTER TABLE ADD COLUMN raises
\* "duplicate column name" on a column the table has; the ALTERs executed
\* before it stay.
RECURSIVE Migrate(_, _, _, _)
Migrate(existing_columns, cols, added, i) ==
    IF i > Len(new_columns) THEN [cols |-> cols, added |-> added, error |-> FALSE]
    ELSE LET c == new_columns[i]
         IN  IF c \notin MissingColumns(existing_columns)
             THEN Migrate(existing_columns, cols, added, i + 1)
             ELSE IF c \in cols
                  THEN [cols |-> cols, added |-> added, error |-> TRUE]
                  ELSE Migrate(existing_columns, cols \cup {c}, added \cup {c}, i + 1)

\* a row after ALTER TABLE ADD COLUMN: the new columns read NULL
Widen(row, cols) ==
    [c \in cols |-> IF c \in DOMAIN row THEN row[c] ELSE None]

\* json.dumps(data, ensure_ascii=False): the stored text of the payload
Dumps(data) == [t |-> "text", json |-> data]

\* a record written by an earlier version of the collector
OldRow ==
    [id |-> 1, event_type |-> Str(TxtCardMoved), item_name |-> Str(<<"o","l","d">>),
     board_name |-> Str(TxtEP), user_name |-> Str(<<"A","l">>),
     raw_data |-> Dumps(Obj([event |-> Str(TxtCardMoved)])), received_at |-> 0]

NoOp == [op |-> "none"]

Init ==
    /\ tableExists \in BOOLEAN
    /\ columns \in IF tableExists
                   THEN {BaseColumns \cup S : S \in SUBSET NewColumnSet}
                   ELSE {{}}
    /\ events \in IF tableExists THEN {<<>>, <<Widen(OldRow, columns)>>} ELSE {<<>>}
    /\ clock = 0
    /\ env \in {<<>>, [WECOM_WEBHOOK |-> ""]}
    /\ last = NoOp
    /\ prevOp = "none"

(***************************************************************************)
(* init_db, lines 11-48.                                                   *)
(***************************************************************************)
init_db ==
    LET created == IF tableExists THEN columns ELSE BaseColumns
        m == Migrate(created, created, {}, 1)
    IN  /\ tableExists' = TRUE
        /\ columns' = m.cols
        /\ events' = [i \in 1..Len(events) |-> Widen(events[i], m.cols)]
        /\ last' = [op |-> "init_db",
                    status |-> IF m.error THEN "error" ELSE "ok",
                    added |-> m.added]
        /\ prevOp' = last.op
        /\ UNCHANGED <<clock, env>>

(***************************************************************************)
(* handle_webhook, lines 50-194.                                           *)
(***************************************************************************)
\* os.environ.get(k, default)
os_environ_get(k, default) == IF k \in DOMAIN env THEN env[k] ELSE default

\* should_push without the event-type test
should_push_board_only(board_name, event_type) == board_name \in ALLOWED_BOARDS

\* line 127
should_push(board_name, event_type) ==
    (board_name \in ALLOWED_BOARDS) /\ (event_type \in ALLOWED_TYPES)

\* sqlite3 binds None, numbers and str; a dict or list raises
Bindable(v) == v.t \in {"null", "str", "num"}

\* lines 111-118: the INSERT raises when the store is unreachable, when the
\* table or one of the named columns is missing, or on an unbindable value
InsertError(p, dbFail) ==
    IF dbFail \/ ~tableExists \/ ~(AllColumns \subseteq columns) THEN "storage"
    ELSE IF \E c \in {"event_type", "item_name", "board_name", "user_name",
                      "card_id", "from_list", "to_list"} : ~Bindable(p[c])
         THEN "bind"
         ELSE "none"

\* ForwardError with requests.post moved out of the try of line 162
ForwardErrorUncaught(importOk, outcome) ==
    IF ~importOk THEN "import"
    ELSE IF outcome \in {"exception", "timeout"} THEN "transport" ELSE "none"

\* lines 129-169: the exception that leaves the forwarding block.  The
\* import of line 130 is outside the try of line 162; whatever
\* requests.post does (outcome) is caught by the except of line 168 or is a
\* mere status code.
ForwardError(importOk, outcome) ==
    IF ~importOk THEN "import" ELSE "none"

NewRow(p, data) ==
    [id |-> Len(events) + 1,
     event_type |-> p.event_type, item_name |-> p.item_name,
     board_name |-> p.board_name, user_name |-> p.user_name,
     card_id |-> p.card_id, from_list |-> p.from_list, to_list |-> p.to_list,
     raw_data |-> Dumps(data), received_at |-> clock]

\* the response and the bookkeeping of one call
Reply(body, status, error, committed, entered, posts, outcome) ==
    [op |-> "webhook", body |-> body, status |-> status, error |-> error,
     committed |-> committed, entered |-> entered, posts |-> posts,
     outcome |-> outcome]

\* what requests.post(..., timeout=5) can do
Outcomes == {"ok", "http_error", "exception", "timeout"}

\* what the store (dbFail), the import of line 130 (importOk) and
\* requests.post (outcome) do is drawn where the handler reaches them
handle_webhook(body) ==
    /\ prevOp' = last.op
    /\ UNCHANGED <<tableExists, columns, clock, env>>
    /\ IF body.kind = "malformed"
       THEN \* request.json raises, caught at line 190
            /\ events' = events
            /\ last' = Reply(body, 500, "bad_request", 0, FALSE, 0, "none")
       ELSE IF NotData(body.data)
       THEN /\ events' = events
            /\ last' = Reply(body, 400, "no_payload", 0, FALSE, 0, "none")
       ELSE
       LET data == body.data
           p == ParseOnce(data)
       IN  IF p.raised
           THEN /\ events' = events
                /\ last' = Reply(body, 500, "parse", 0, FALSE, 0, "none")
           ELSE \E dbFail \in BOOLEAN :
                IF InsertError(p, dbFail) # "none"
                THEN /\ events' = events
                     /\ last' = Reply(body, 500, InsertError(p, dbFail), 0, FALSE, 0, "none")
                ELSE
                LET WECOM_WEBHOOK == os_environ_get("WECOM_WEBHOOK", DefaultWebhookUrl)
                    entered == should_push(p.board_name, p.event_type) /\ WECOM_WEBHOOK # ""
                IN  /\ events' = Append(events, NewRow(p, data))
                    /\ IF ~entered
                       THEN last' = Reply(body, 200, "none", 1, FALSE, 0, "none")
                       ELSE \E importOk \in BOOLEAN :
                            IF ~importOk
                            THEN \* ImportError leaves the block before the send
                                 last' = Reply(body, 500, ForwardError(importOk, "none"),
                                               1, TRUE, 0, "none")
                            ELSE \* requests.post is called once
                                 \E outcome \in Outcomes :
                                 LET error == ForwardError(importOk, outcome)
                                 IN  last' = Reply(body,
                                                   IF error = "none" THEN 200 ELSE 500,
                                                   error, 1, TRUE, 1, outcome)

(***************************************************************************)
(* list_events, lines 196-205.                                             *)
(***************************************************************************)
\* ORDER BY received_at DESC names no second key: SQL leaves the order of
\* rows with equal received_at open.  tie is the order the engine happens
\* to produce among them.
Precedes(rows, i, j, tie) ==
    \/ rows[i].received_at > rows[j].received_at
    \/ /\ rows[i].received_at = rows[j].received_at
       /\ IF tie = "rowid_asc" THEN rows[i].id < rows[j].id
                               ELSE rows[i].id > rows[j].id

RECURSIVE OrderBy(_, _, _)
OrderBy(rows, S, tie) ==
    IF S = {} THEN <<>>
    ELSE LET i == CHOOSE i \in S : \A j \in S \ {i} : Precedes(rows, i, j, tie)
         IN  <<rows[i].id>> \o OrderBy(rows, S \ {i}, tie)

Limit(seq, n) == SubSeq(seq, 1, IF Len(seq) < n THEN Len(seq) ELSE n)

list_events(tie) ==
    /\ last' = IF tableExists
               THEN [op |-> "list", status |-> 200,
                     rows |-> Limit(OrderBy(events, 1..Len(events), tie), LIMIT)]
               ELSE [op |-> "list", status |-> 500, rows |-> <<>>]
    /\ prevOp' = last.op
    /\ UNCHANGED <<tableExists, columns, events, clock, env>>

(***************************************************************************)
(* The wall clock behind CURRENT_TIMESTAMP, in whole seconds.              *)
(***************************************************************************)
Tick ==
    /\ clock < MaxClock
    /\ clock' = clock + 1
    /\ UNCHANGED <<tableExists, columns, events, env, last, prevOp>>

TieOrders == {"rowid_asc", "rowid_desc"}

Next ==
    \/ init_db
    \/ \E body \in Bodies : Len(events) < MaxEvents /\ handle_webhook(body)
    \/ \E tie \in TieOrders : list_events(tie)
    \/ Tick

Spec == Init /\ [][Next]_vars

(***************************************************************************)
(* The parser alone: one Shape-A call on a migrated, empty store.          *)
(***************************************************************************)
InitReady ==
    /\ tableExists = TRUE
    /\ columns = AllColumns
    /\ events = <<>>
    /\ clock = 0
    /\ env = <<>>
    /\ last = NoOp
    /\ prevOp = "none"

NextParse == last = NoOp /\ \E body \in ParseBodies : handle_webhook(body)

SpecParse == InitReady /\ [][NextParse]_vars

(***************************************************************************)
(* Writes and listings: long enough to exceed the LIMIT of list_events.    *)
(***************************************************************************)
NextList ==
    \/ Len(events) < MaxListEvents /\ handle_webhook(BodyMovePX)
    \/ \E tie \in TieOrders : list_events(tie)
    \/ Tick

SpecList == InitReady /\ [][NextList]_vars

(***************************************************************************)
(* Vocabulary of the properties.                                           *)
(***************************************************************************)
\* the last operation was a webhook call
Hook == last.op = "webhook"
\* ... and it committed a record, which is then the last row of the table
Stored == Hook /\ last.committed = 1
LastRow == events[Len(events)]
StoreReady == tableExists /\ AllColumns \subseteq columns
SinkUrl == os_environ_get("WECOM_WEBHOOK", DefaultWebhookUrl)
\* the last call posted a non-empty JSON object
PostedObject ==
    Hook /\ last.body.kind = "json" /\ IsObj(last.body.data)
         /\ DOMAIN last.body.data.f # {}
\* the last call posted a Shape-A payload whose message is a string
PostedMessage ==
    PostedObject /\ HasKey(last.body.data, "message")
                 /\ IsStr(last.body.data.f.message)
LastMessage == last.body.data.f.message.s
HasDefaults(row) ==
    /\ row.event_type = Str(TxtUnknown)
    /\ row.item_name = Str(TxtNA)
    /\ row.board_name = Str(TxtNA)
    /\ row.user_name = Str(TxtSystem)
    /\ row.card_id = None /\ row.from_list = None /\ row.to_list = None

(***************************************************************************)
(* C1.  Every webhook call either returns success with exactly one new     *)
(* record committed, or returns an error (400/500) with no record of that  *)
(* call in the store.                                                      *)
(***************************************************************************)
AckMatchesStore ==
    Hook => \/ last.status = 200 /\ last.committed = 1
            \/ last.status \in {400, 500} /\ last.committed = 0

(***************************************************************************)
(* C2, as stated.  Posting {} stores one record holding the defaults and   *)
(* returns success.                                                        *)
(***************************************************************************)
EmptyObjectStored ==
    (Hook /\ last.body = BodyEmpty /\ StoreReady)
        => /\ last.status = 200
           /\ last.committed = 1
           /\ Len(events) > 0
           /\ HasDefaults(LastRow)

(***************************************************************************)
(* C2, amended.  Posting {} is refused with status 400 and stores nothing; *)
(* a non-empty object with neither "message" nor "event" stores one record *)
(* holding the defaults and returns success, unless the store fails.       *)
(***************************************************************************)
EmptyObjectRefused ==
    /\ (Hook /\ last.body = BodyEmpty)
          => last.status = 400 /\ last.committed = 0
    /\ (Hook /\ last.body = BodyNeither /\ last.error # "storage")
          => /\ last.status = 200
             /\ last.committed = 1
             /\ HasDefaults(LastRow)
             /\ LastRow.raw_data = Dumps(last.body.data)

EmptyObjectRefusedWitness ==
    Hook /\ last.body = BodyEmpty /\ StoreReady /\ last.status = 400

(***************************************************************************)
(* C3.  Every stored record has non-null event_type, item_name, board_name *)
(* and user_name.                                                          *)
(***************************************************************************)
StoredFieldsNonNull ==
    \A i \in 1..Len(events) :
        \A c \in {"event_type", "item_name", "board_name", "user_name"} :
            events[i][c] # None

(***************************************************************************)
(* C4.  For a non-empty JSON object, whatever the type of its message,     *)
(* title, event, data and data.item values, parsing is never fatal: unless *)
(* the store fails, one record is stored and the call returns success.     *)
(* (Calls that enter the forwarding block are left to C1.)                 *)
(***************************************************************************)
ParsingNeverFatal ==
    (PostedObject /\ last.error # "storage" /\ ~last.entered)
        => last.status = 200 /\ last.committed = 1

(***************************************************************************)
(* C5.  When the forwarding decision is true and the transport fails       *)
(* (exception, timeout or non-success status), the call still returns      *)
(* success, the record stays committed and the transport was invoked once. *)
(***************************************************************************)
TransportFailureIsolated ==
    (Hook /\ last.entered /\ last.posts >= 1
          /\ last.outcome \in {"exception", "timeout", "http_error"})
        => /\ last.status = 200
           /\ last.committed = 1
           /\ last.posts = 1
           /\ Len(events) > 0
           /\ LastRow.raw_data = Dumps(last.body.data)

TransportFailureIsolatedWitness ==
    /\ Hook /\ last.entered /\ last.posts = 1
    /\ last.outcome = "timeout"
    /\ last.status = 200
    /\ LastRow.board_name \in ALLOWED_BOARDS

(***************************************************************************)
(* C6, as stated.  For a stored record the transport is invoked exactly    *)
(* when board_name is in the board allow-list and event_type is in the     *)
(* event-type allow-list.  (Stated for the calls that return success; the   *)
(* calls that return an error after the commit are the subject of C1.)     *)
(***************************************************************************)
TransportIffAllowed ==
    (Stored /\ last.status = 200)
        => (last.posts = 1 <=> /\ LastRow.board_name \in ALLOWED_BOARDS
                               /\ LastRow.event_type \in ALLOWED_TYPES)

(***************************************************************************)
(* C6, amended.  For a stored record the forwarding block of line 129 is   *)
(* entered exactly when board_name is in the board allow-list, event_type  *)
(* is in the event-type allow-list and the sink URL is not empty; the      *)
(* transport is invoked at most once and only inside that block, so never  *)
(* for a board outside the allow-list.                                     *)
(***************************************************************************)
ForwardingIffAllowedAndUrl ==
    Stored => /\ last.entered <=> /\ LastRow.board_name \in ALLOWED_BOARDS
                                  /\ LastRow.event_type \in ALLOWED_TYPES
                                  /\ SinkUrl # ""
              /\ last.posts <= 1
              /\ last.posts = 1 => last.entered
              /\ LastRow.board_name \notin ALLOWED_BOARDS => last.posts = 0

ForwardingIffAllowedAndUrlWitness ==
    /\ Stored /\ last.posts = 1
    /\ LastRow.board_name \in ALLOWED_BOARDS
    /\ LastRow.event_type \in ALLOWED_TYPES

(***************************************************************************)
(* C7.  For a Shape-A message containing a Markdown card link              *)
(* [label](url ending in /cards/<id>), the stored item_name is the link's  *)
(* label and card_id is the identifier after "/cards/".                    *)
(***************************************************************************)
\* the card links of str: <<i, j, k, e>> with '[' at i, "](" at j, "/cards/"
\* at k and the identifier ending at e, before ')'
CardLinks(str) ==
    {q \in (1..Len(str)) \X (1..Len(str)) \X (1..Len(str)) \X (1..Len(str)) :
        /\ q[1] < q[2] /\ q[2] + 2 <= q[3] /\ q[3] + 7 <= q[4] /\ q[4] < Len(str)
        /\ str[q[1]] = "["
        /\ \A m \in (q[1] + 1)..(q[2] - 1) : str[m] \notin {"[", "]", "\n"}
        /\ str[q[2]] = "]" /\ str[q[2] + 1] = "("
        /\ \A m \in (q[2] + 2)..(q[3] - 1) :
              str[m] \notin {"[", "]", "(", ")", " ", "\n"}
        /\ LitAt(str, LitCards, q[3])
        /\ \A m \in (q[3] + 7)..q[4] : str[m] \in IdChars
        /\ str[q[4] + 1] = ")"}

CardLinkLabelAndId ==
    (Stored /\ PostedMessage /\ Cardinality(CardLinks(LastMessage)) = 1)
        => LET q == CHOOSE q \in CardLinks(LastMessage) : TRUE
           IN  /\ LastRow.item_name = Str(SubSeq(LastMessage, q[1] + 1, q[2] - 1))
               /\ LastRow.card_id = Str(SubSeq(LastMessage, q[3] + 7, q[4]))

(***************************************************************************)
(* C8.  For a Shape-A message, board_name is the trimmed text after the    *)
(* last occurrence of " on ", and "N/A" when the message has no " on ".    *)
(* (Stated for the messages of one line.)                                  *)
(***************************************************************************)
OnAt(str) == {i \in 1..Len(str) : LitAt(str, LitOn, i)}

BoardAfterLastOn ==
    (Stored /\ PostedMessage /\ AllDot(LastMessage, 1, Len(LastMessage)))
        => LastRow.board_name =
              IF OnAt(LastMessage) = {} THEN Str(TxtNA)
              ELSE Str(Strip(SubSeq(LastMessage, Max(OnAt(LastMessage)) + 4,
                                    Len(LastMessage))))

(***************************************************************************)
(* C9.  init_db is idempotent: a call that directly follows another call   *)
(* of init_db adds no column, raises no error and leaves the table, its    *)
(* columns and its records as they were.                                   *)
(***************************************************************************)
InitDbIdempotent ==
    [][(last.op = "init_db" /\ init_db)
          => /\ tableExists' = tableExists
             /\ columns' = columns
             /\ events' = events
             /\ last'.added = {}
             /\ last'.status = "ok"]_vars

InitDbIdempotentWitness ==
    /\ last.op = "init_db" /\ prevOp = "init_db"
    /\ last.added = {} /\ last.status = "ok"
    /\ columns = AllColumns
    /\ Len(events) > 0

(***************************************************************************)
(* C10.  After n successful writes the listing returns exactly the         *)
(* min(10, n) most recently written records, most recent first, records    *)
(* with equal received_at in reverse insertion order.                      *)
(***************************************************************************)
ListingMostRecentFirst ==
    (last.op = "list" /\ last.status = 200)
        => /\ Len(last.rows) = IF Len(events) < LIMIT THEN Len(events) ELSE LIMIT
           /\ \A k \in 1..Len(last.rows) : last.rows[k] = events[Len(events) + 1 - k].id

====
